---- MODULE Spec2Model ----
(***************************************************************************)
(* PerceptEye semantic router: the classification-gated dispatcher of      *)
(* semantic_router.py (SemanticRouter) behind the entry points of          *)
(* api_server.py, and the capture loop of raspberry_pi_client.py.          *)
(*                                                                         *)
(* Spec: one request at a time through every entry point.  DecodeSpec:     *)
(* _parse_routing_response on every reply text.  UrlSpec: the              *)
(* sign-language handler under every configured URL.  PairSpec: two        *)
(* requests on the one router.  ClientSpec: run_continuous_capture.        *)
(*                                                                         *)
(* Floats are integers in hundredths (0.7 is 70); NaN is a value of its    *)
(* own.  Python exceptions are explicit outcomes: an operation that can    *)
(* raise yields Ret(v) or Raise(e), and every try/except of the code is an *)
(* IF on that outcome.                                                     *)
(***************************************************************************)
EXTENDS Integers, Sequences, FiniteSets, TLC

VARIABLES
    env,              \* CONFIDENCE_THRESHOLD of the process environment
    config,           \* router.config (RouterConfig), built once at startup
    pc,               \* position of the request being handled
    entry,            \* the entry point that received the request
    frame,            \* the arguments of route_and_call_api
    content,          \* analyze_frame's local: the oracle's raw reply text
    routing_decision, \* the decision analyze_frame computed / returned
    result,           \* outcome of route_and_call_api: Ret(dict) or Raise(e)
    failure,          \* the exception analyze_frame's except clause caught
    oracleCalls,      \* generate_content calls made for this request
    fetches,          \* image reference downloads made for this request
    handlerCalled,    \* the _call_*_api method entered for this request
    requests,         \* downstream handler HTTP requests sent for this request
    outcome,          \* what the downstream service did with the request
    prompt_parts,     \* what analyze_frame passed to generate_content
    script,           \* history: the replies this request was given, when recorded
    other,            \* the locals of a second request in progress, when there is one
    client            \* the Raspberry Pi client (PerceptEyeClient), when it runs

vars == <<env, config, pc, entry, frame, content, routing_decision, result,
          failure, oracleCalls, fetches, handlerCalled, requests, outcome,
          prompt_parts, script, other, client>>

\* the locals of one request: all but the shared router and the client
locals == <<pc, entry, frame, content, routing_decision, result, failure,
            oracleCalls, fetches, handlerCalled, requests, outcome, prompt_parts,
            script>>

(***************************************************************************)
(* Bounds of the model                                                     *)
(***************************************************************************)
\* longest run of text the oracle puts before and after its JSON object
MaxNoise == 1
\* longest configured SIGN_LANGUAGE_API_URL, in tokens
MaxUrlLen == 4
\* captures the client attempts before the model stops following it
MaxCaptures == 3

(***************************************************************************)
(* Python values                                                           *)
(***************************************************************************)
Str(s) == [t |-> "str", s |-> s, n |-> 0]
Num(n) == [t |-> "num", s |-> "", n |-> n]
NaN == [t |-> "nan", s |-> "", n |-> 0]
None == [t |-> "none", s |-> "", n |-> 0]
\* a key that is not in a dict
Absent == [t |-> "absent", s |-> "", n |-> 0]

\* bool(v) of a str / bytes / None argument
Truthy(v) == ~(v = None \/ v = Str(""))

\* a < b on floats: every comparison with NaN is False
FloatLt(a, b) == a.t = "num" /\ b.t = "num" /\ a.n < b.n

Ret(v) == [ok |-> TRUE, val |-> v]
Raise(e) == [ok |-> FALSE, exc |-> e]

\* a response mapping: its keys and the text under its "error" key
Dict(keys, err) == [t |-> "dict", keys |-> keys, error |-> err]

(***************************************************************************)
(* RouteType, RouterConfig, create_router_from_env                         *)
(***************************************************************************)
FACE_RECOGNITION_TTS == "face_recognition_tts"
SIGN_LANGUAGE == "sign_language"
NONE == "none"
RouteType == {FACE_RECOGNITION_TTS, SIGN_LANGUAGE, NONE}

DefaultThreshold == 70

Unset == [set |-> FALSE, v |-> 0]
EnvValue(n) == [set |-> TRUE, v |-> n]
EnvThresholds == {Unset, EnvValue(0)}

\* a URL is a sequence of tokens: "h" (scheme, host, any other path text),
\* "/" and "p" (the text predict/base64)
BareHost == <<"h">>
FaceUrl == <<"h", "/", "h">>
ConfiguredUrls == UNION {[1..k -> {"h", "/", "p"}] : k \in 0..MaxUrlLen}

CreateRouterFromEnv(e, url) ==
    [face_recognition_tts_api_url |-> FaceUrl,
     sign_language_api_url |-> url,
     confidence_threshold |-> Num(IF e.set THEN e.v ELSE DefaultThreshold)]

(***************************************************************************)
(* The oracle's reply text.  A text is a sequence of tokens: a brace, a    *)
(* stretch of prose ("w"), or the members of one JSON object ("obj", with  *)
(* the values under its route / confidence / reasoning keys).              *)
(***************************************************************************)
NoObj == [route |-> Absent, confidence |-> Absent, reasoning |-> Absent]
Tok(ch) == [ch |-> ch, obj |-> NoObj]
Obj(o) == [ch |-> "obj", obj |-> o]

RouteValues ==
    {Str(FACE_RECOGNITION_TTS), Str(SIGN_LANGUAGE), Str(NONE),
     Str("face_recognition"), None, Absent}
ConfidenceValues ==
    {Num(0 - 20), Num(0), Num(40), Num(70), Num(92), Num(150),
     Str("0.92"), Str("high"), None, NaN, Absent}
ReasoningValues == {Str("face visible"), Absent}

JsonObjects ==
    [route : RouteValues, confidence : ConfidenceValues, reasoning : ReasoningValues]
NoiseTokens == {Tok("{"), Tok("}"), Tok("w")}
NoiseSeqs == UNION {[1..k -> NoiseTokens] : k \in 0..MaxNoise}
Middles == {<<>>} \cup {<<Tok("{"), Obj(o), Tok("}")>> : o \in JsonObjects}
\* every reply text within the bound: what _parse_routing_response is given
OracleTexts == {pre \o mid \o post : pre \in NoiseSeqs, mid \in Middles, post \in NoiseSeqs}
\* the replies a request is answered with: empty, prose alone, the bare JSON
\* object, the object wrapped in prose
OracleReplies == {pre \o mid \o pre : pre \in {<<>>, <<Tok("w")>>}, mid \in Middles}

(***************************************************************************)
(* str.find, str.rfind, slicing, json.loads, float                         *)
(***************************************************************************)
\* content.find(ch): 0-based index of the first ch, -1 when there is none
Find(s, ch) ==
    IF \E i \in 1..Len(s) : s[i].ch = ch
    THEN (CHOOSE i \in 1..Len(s) :
              s[i].ch = ch /\ \A j \in 1..(i - 1) : s[j].ch # ch) - 1
    ELSE 0 - 1

\* find in the place of rfind
RFindFirst(s, ch) == Find(s, ch)

\* content.rfind(ch): 0-based index of the last ch, -1 when there is none
RFind(s, ch) ==
    IF \E i \in 1..Len(s) : s[i].ch = ch
    THEN (CHOOSE i \in 1..Len(s) :
              s[i].ch = ch /\ \A j \in (i + 1)..Len(s) : s[j].ch # ch) - 1
    ELSE 0 - 1

\* the whole text in the place of the span
SliceWhole(s, a, b) == s

\* s[a:b] for 0 <= a <= b <= len(s)
Slice(s, a, b) == SubSeq(s, a + 1, b)

\* json.loads of a span that starts with "{" and ends with "}": the span is
\* one object, or json.JSONDecodeError
JsonLoads(js) ==
    IF Len(js) = 3 /\ js[1].ch = "{" /\ js[2].ch = "obj" /\ js[3].ch = "}"
    THEN Ret(js[2].obj)
    ELSE IF Len(js) = 2 /\ js[1].ch = "{" /\ js[2].ch = "}"
    THEN Ret(NoObj)
    ELSE Raise("JSONDecodeError")

\* the str values float() accepts, with their value
FloatLiterals == [s \in {"0.92"} |-> 92]

\* float(v) of a JSON value
ToFloat(v) ==
    CASE v.t = "num" -> Ret(v)
      [] v.t = "nan" -> Ret(v)
      [] v.t = "str" -> IF v.s \in DOMAIN FloatLiterals
                        THEN Ret(Num(FloatLiterals[v.s]))
                        ELSE Raise("ValueError")
      [] OTHER -> Raise("TypeError")

\* d.get(key, default), given the value under the key
DictGet(v, default) == IF v = Absent THEN default ELSE v

(***************************************************************************)
(* SemanticRouter._parse_routing_response                                  *)
(***************************************************************************)
MalformedDecision(reasoning) ==
    [route |-> Str(NONE), confidence |-> Num(0),
     reasoning |-> Str(reasoning), error |-> TRUE]

\* the body of the try block: a decision, or the exception it raises
ParseTry(text) ==
    LET start_idx == Find(text, "{")
        end_idx == RFind(text, "}") + 1
    IN  IF start_idx # 0 - 1 /\ end_idx > start_idx
        THEN LET loaded == JsonLoads(Slice(text, start_idx, end_idx))
             IN  IF ~loaded.ok THEN loaded
                 ELSE LET routing_data == loaded.val
                          conf == ToFloat(routing_data.confidence)
                      IN  IF routing_data.route # Absent /\ routing_data.confidence # Absent
                          THEN IF ~conf.ok THEN conf
                               ELSE Ret([route |-> routing_data.route,
                                         confidence |-> conf.val,
                                         reasoning |-> DictGet(routing_data.reasoning, Str("")),
                                         error |-> FALSE])
                          ELSE Ret(MalformedDecision("Failed to parse routing decision"))
        ELSE Ret(MalformedDecision("Failed to parse routing decision"))

\* _parse_routing_response without its except clause
ParseNoExcept(text) ==
    LET r == ParseTry(text)
    IN  IF r.ok THEN r.val ELSE Raise(r.exc)

ParseRoutingResponse(text) ==
    LET r == ParseTry(text)
    IN  IF r.ok THEN r.val ELSE MalformedDecision("Parse error: " \o r.exc)

(***************************************************************************)
(* Frames: the arguments the entry points pass to route_and_call_api       *)
(***************************************************************************)
Jpeg == Str("<jpeg>")
BadBase64 == Str("<bad-base64>")
NotAnImage == Str("<not-an-image>")
Descriptions == {None, Str("I see a person's face, who is this?")}

\* POST /route: the optional fields of FrameAnalysisRequest; no audio_data
RouteFrames ==
    [image_base64 : {None, Str(""), Jpeg, BadBase64, NotAnImage},
     audio_data : {None},
     audio_description : Descriptions,
     image_url : {None, Str("http://camera/frame.jpg")}]

\* POST /route/upload: the image is the base64 of the uploaded bytes; no image_url
UploadFrames ==
    [image_base64 : {None, Str(""), Jpeg, NotAnImage},
     audio_data : {None, Str("<wav>")},
     audio_description : Descriptions,
     image_url : {None}]

\* the entry points: POST /route, /route/upload, /analyze and the forced routes
Dispatched == {"route", "upload"}
Classified == Dispatched \cup {"analyze"}
Forced == {"force_face", "force_speech", "force_people", "force_sign"}
Entries == Classified \cup Forced
\* every entry point but /route/upload takes a FrameAnalysisRequest
FramesOf(e) == IF e = "upload" THEN UploadFrames ELSE RouteFrames

\* forced routes that all pass the request's image on
HandlerArgsWithImage(e, f) ==
    [image_base64 |-> f.image_base64, audio_data |-> None,
     audio_description |-> f.audio_description]

\* the arguments a forced route passes to the handler method
HandlerArgs(e, f) ==
    CASE e = "force_face" ->
             [image_base64 |-> f.image_base64, audio_data |-> None,
              audio_description |-> f.audio_description]
      [] e = "force_speech" ->
             [image_base64 |-> None, audio_data |-> None,
              audio_description |-> f.audio_description]
      [] e = "force_people" ->
             [image_base64 |-> f.image_base64, audio_data |-> None,
              audio_description |-> None]
      [] OTHER ->
             [image_base64 |-> f.image_base64, audio_data |-> None,
              audio_description |-> None]

\* forced routes with the two handler methods exchanged
ForcedHandlerSwapped(e) == IF e = "force_sign" THEN "face" ELSE "sign"

\* the handler method a forced route calls
ForcedHandler(e) == IF e = "force_sign" THEN "sign" ELSE "face"

(***************************************************************************)
(* SemanticRouter.analyze_frame                                            *)
(***************************************************************************)
\* _decode_base64_to_image: base64.b64decode, then Image.open
DecodeBase64ToImage(b64) ==
    CASE b64 = Jpeg -> Ret(b64)
      [] b64 = BadBase64 -> Raise("binascii.Error")
      [] OTHER -> Raise("UnidentifiedImageError")

\* requests.get(image_url, timeout=10); raise_for_status(); Image.open
FetchOutcomes == {"image", "not_image", "http_error", "conn_fail", "timeout"}
FetchImage(o) ==
    CASE o = "image" -> Ret(Jpeg)
      [] o = "not_image" -> Raise("UnidentifiedImageError")
      [] o = "http_error" -> Raise("HTTPError")
      [] o = "conn_fail" -> Raise("ConnectionError")
      [] OTHER -> Raise("Timeout")

\* prompt_parts as passed to generate_content: the system prompt and the text
\* (with the audio description when there is one), then the image if any:
\* "inline" for the decoded image_base64, "fetched" for the downloaded one
PromptParts(audio_description, image) ==
    [text |-> IF Truthy(audio_description) THEN audio_description ELSE None,
     image |-> image]
\* the reference tested before the inline image
ImageSourceUrlFirst(image_base64, image_url) ==
    IF Truthy(image_url) THEN "fetched"
    ELSE IF Truthy(image_base64) THEN "inline"
    ELSE "none"

\* if image_base64: ... elif image_url: ...: where the image of the prompt
\* comes from
ImageSource(image_base64, image_url) ==
    IF Truthy(image_base64) THEN "inline"
    ELSE IF Truthy(image_url) THEN "fetched"
    ELSE "none"

\* no generate_content call made
NoParts == [text |-> None, image |-> "unsent"]

\* generate_content / response.text failing: unreachable, timeout, no text part
OracleFailures == {"ServiceUnavailable", "DeadlineExceeded", "ValueError"}

\* an except clause that forgets the error flag
AnalyzeExceptNoFlag(e) ==
    [route |-> Str(NONE), confidence |-> Num(0),
     reasoning |-> Str("Error: " \o e), error |-> FALSE]

\* the except clause of analyze_frame
AnalyzeExcept(e) ==
    [route |-> Str(NONE), confidence |-> Num(0),
     reasoning |-> Str("Error: " \o e), error |-> TRUE]

(***************************************************************************)
(* Downstream handlers                                                     *)
(***************************************************************************)
TransportFailures == {"conn_fail", "timeout", "http_error"}
ExcName(o) ==
    CASE o = "conn_fail" -> "ConnectionError"
      [] o = "timeout" -> "Timeout"
      [] OTHER -> "HTTPError"

FaceOutcomes ==
    TransportFailures \cup {"ok_full", "ok_partial", "ok_badfaces", "ok_nondict", "garbage"}
SignOutcomes ==
    TransportFailures \cup
        {"ok_sign", "ok_nohand", "ok_nullconf", "ok_partial", "ok_nondict", "garbage"}

FaceKeys == {"faces", "locations", "unknown_count", "announcement"}
SignKeys == {"success", "predicted_sign", "confidence", "contextual_meaning",
             "alternative_contexts", "hand_detected", "message"}

\* _call_face_recognition_tts_api before the request: the image is required
FaceNoImage(image_base64) == ~Truthy(image_base64)
FaceNoImageResponse == Dict({"error"}, "No image provided for face recognition")

FaceRequest(f, cfg) ==
    [to |-> "face", url |-> cfg.face_recognition_tts_api_url, image |-> f.image_base64,
     audio |-> IF Truthy(f.audio_data) THEN f.audio_data ELSE None,
     audio_text |-> IF Truthy(f.audio_description) THEN f.audio_description ELSE None]

\* _call_face_recognition_tts_api from the request on.  jsonErrCaught: the
\* installed requests raises a RequestException subclass from response.json()
FaceResponse(o, jsonErrCaught) ==
    CASE o \in TransportFailures ->
             Ret(Dict({"error", "faces", "unknown_count", "announcement"}, ExcName(o)))
      [] o = "garbage" ->
             IF jsonErrCaught
             THEN Ret(Dict({"error", "faces", "unknown_count", "announcement"},
                           "JSONDecodeError"))
             ELSE Raise("JSONDecodeError")
      [] o = "ok_nondict" -> Raise("AttributeError")
      [] o = "ok_badfaces" -> Raise("TypeError")
      [] o = "ok_partial" -> Ret(Dict({"detail"}, ""))
      [] OTHER -> Ret(Dict(FaceKeys, ""))

\* str.endswith and str.rstrip('/')
EndsWith(u, suffix) ==
    /\ Len(u) >= Len(suffix)
    /\ SubSeq(u, Len(u) - Len(suffix) + 1, Len(u)) = suffix
RStripSlash(u) ==
    LET keep == {k \in 0..Len(u) : \A i \in (k + 1)..Len(u) : u[i] = "/"}
        n == CHOOSE k \in keep : \A m \in keep : k <= m
    IN  SubSeq(u, 1, n)
PredictSuffix == <<"/", "p">>

\* the endpoint _call_sign_language_api posts to
SignLanguageUrl(api_url) ==
    IF ~EndsWith(api_url, PredictSuffix)
    THEN RStripSlash(api_url) \o PredictSuffix
    ELSE api_url

\* a request that carries an image whatever the caller supplied
SignRequestWithImage(image_base64, cfg) ==
    [to |-> "sign", url |-> SignLanguageUrl(cfg.sign_language_api_url),
     image |-> Jpeg, audio |-> None, audio_text |-> None]

SignRequest(image_base64, cfg) ==
    [to |-> "sign", url |-> SignLanguageUrl(cfg.sign_language_api_url),
     image |-> image_base64, audio |-> None, audio_text |-> None]

\* _call_sign_language_api from the request on
SignResponse(o) ==
    CASE o \in TransportFailures -> Raise(ExcName(o))
      [] o = "garbage" -> Raise("JSONDecodeError")
      [] o = "ok_nondict" -> Raise("AttributeError")
      [] o = "ok_nullconf" -> Raise("TypeError")
      [] o = "ok_partial" -> Ret(Dict({"detail"}, ""))
      [] OTHER -> Ret(Dict(SignKeys, ""))

(***************************************************************************)
(* SemanticRouter.route_and_call_api                                       *)
(***************************************************************************)
\* no gate
GateSkipsNever(d, cfg) == FALSE

\* a gate that remembers: it skips once another request has been answered
GateSkipsAfterFirst(d, cfg) ==
    \/ d.error
    \/ FloatLt(d.confidence, cfg.confidence_threshold)
    \/ other.pc = "Done"

\* a gate that tests the error flag alone
GateSkipsErrorOnly(d, cfg) == d.error

\* a gate that compares with <= instead of <
GateSkipsLe(d, cfg) ==
    \/ d.error
    \/ FloatLt(d.confidence, cfg.confidence_threshold)
    \/ d.confidence = cfg.confidence_threshold

\* a gate that also skips the labels without a handler
GateSkipsUnregistered(d, cfg) ==
    \/ d.error
    \/ FloatLt(d.confidence, cfg.confidence_threshold)
    \/ d.route \notin {Str(FACE_RECOGNITION_TTS), Str(SIGN_LANGUAGE)}

\* the confidence gate
GateSkips(d, cfg) == d.error \/ FloatLt(d.confidence, cfg.confidence_threshold)

\* the if / elif with the two handler methods exchanged
HandlerSwapped(route_type) ==
    IF route_type = Str(FACE_RECOGNITION_TTS) THEN "sign"
    ELSE IF route_type = Str(SIGN_LANGUAGE) THEN "face"
    ELSE "none"

\* the if / elif on route_type: the handler method called, "none" for neither
Handler(route_type) ==
    IF route_type = Str(FACE_RECOGNITION_TTS) THEN "face"
    ELSE IF route_type = Str(SIGN_LANGUAGE) THEN "sign"
    ELSE "none"

\* a skipped result that keeps the label of the decision alone
SkippedLabelOnly(d) ==
    [routing_decision |-> [d EXCEPT !.reasoning = Str("")],
     api_response |-> None, status |-> "skipped"]

Skipped(d) ==
    [routing_decision |-> d, api_response |-> None, status |-> "skipped"]

\* the handler call without the try / except around it
FinishNoCatch(d, h) ==
    IF h.ok
    THEN Ret([routing_decision |-> d, api_response |-> h.val, status |-> "success"])
    ELSE Raise(h.exc)

\* a result that carries the error key on every path
FinishErrorKey(d, h) ==
    IF h.ok
    THEN Ret([routing_decision |-> d, api_response |-> h.val, status |-> "success",
              error |-> ""])
    ELSE Ret([routing_decision |-> d, api_response |-> None, status |-> "error",
              error |-> h.exc])

\* the try / except around the handler call, given what the handler did
Finish(d, h) ==
    IF h.ok
    THEN Ret([routing_decision |-> d, api_response |-> h.val, status |-> "success"])
    ELSE Ret([routing_decision |-> d, api_response |-> None, status |-> "error",
              error |-> h.exc])

(***************************************************************************)
(* State machine of one request at a time                                  *)
(***************************************************************************)
\* the replies given to a request: the image download, the oracle (its text
\* or its failure), the downstream service, and whether response.json()
\* failing is a RequestException; kept only where recording is on
NoScript ==
    [recording |-> FALSE, id |-> 0, fetch |-> "none", oracle |-> [pending |-> TRUE],
     handler |-> "none", json |-> FALSE]
FreshScript(sc) == [NoScript EXCEPT !.recording = sc.recording, !.id = sc.id]
Recorded(field, v) ==
    IF script.recording THEN [script EXCEPT ![field] = v] ELSE script
NoOther == [absent |-> TRUE]
NoClient == [absent |-> TRUE]

Pending == [pending |-> TRUE]
NoFrame ==
    [image_base64 |-> None, audio_data |-> None,
     audio_description |-> None, image_url |-> None]

Init ==
    /\ env \in EnvThresholds
    /\ config = CreateRouterFromEnv(env, BareHost)
    /\ pc = "Idle"
    /\ entry = "route"
    /\ frame = NoFrame
    /\ content = <<>>
    /\ routing_decision = Pending
    /\ result = Pending
    /\ failure = ""
    /\ oracleCalls = 0
    /\ fetches = 0
    /\ handlerCalled = "none"
    /\ requests = {}
    /\ outcome = "none"
    /\ prompt_parts = NoParts
    /\ script = NoScript
    /\ other = NoOther
    /\ client = NoClient

\* an entry point receives a request
Receive(e, f) ==
    /\ pc \in {"Idle", "Done"}
    /\ pc' = "Received"
    /\ entry' = e
    /\ frame' = f
    /\ content' = <<>>
    /\ routing_decision' = Pending
    /\ result' = Pending
    /\ failure' = ""
    /\ oracleCalls' = 0
    /\ fetches' = 0
    /\ handlerCalled' = "none"
    /\ requests' = {}
    /\ outcome' = "none"
    /\ prompt_parts' = NoParts
    /\ UNCHANGED <<env, config>>
    /\ script' = FreshScript(script)
    /\ UNCHANGED <<other, client>>

\* analyze_frame up to the oracle call: the prompt, then the inline image or
\* the start of the download of the image reference
AnalyzePrepare ==
    /\ pc = "Received"
    /\ entry \in Classified
    /\ IF ImageSource(frame.image_base64, frame.image_url) = "inline"
       THEN LET image == DecodeBase64ToImage(frame.image_base64)
            IN  IF image.ok
                THEN /\ pc' = "Classifying"
                     /\ oracleCalls' = oracleCalls + 1
                     /\ prompt_parts' = PromptParts(frame.audio_description, "inline")
                     /\ UNCHANGED <<routing_decision, failure, fetches>>
                ELSE /\ pc' = "Failed"
                     /\ failure' = image.exc
                     /\ UNCHANGED <<routing_decision, oracleCalls, fetches, prompt_parts>>
       ELSE IF ImageSource(frame.image_base64, frame.image_url) = "fetched"
       THEN /\ pc' = "Fetching"
            /\ fetches' = fetches + 1
            /\ UNCHANGED <<routing_decision, failure, oracleCalls, prompt_parts>>
       ELSE /\ pc' = "Classifying"
            /\ oracleCalls' = oracleCalls + 1
            /\ prompt_parts' = PromptParts(frame.audio_description, "none")
            /\ UNCHANGED <<routing_decision, failure, fetches>>
    /\ UNCHANGED <<env, config, entry, frame, content, result, handlerCalled,
                   requests, outcome>>
    /\ UNCHANGED script
    /\ UNCHANGED <<other, client>>

\* the download of the image reference ends
FetchReply(o) ==
    /\ pc = "Fetching"
    /\ LET image == FetchImage(o)
       IN  IF image.ok
           THEN /\ pc' = "Classifying"
                /\ oracleCalls' = oracleCalls + 1
                /\ prompt_parts' = PromptParts(frame.audio_description, "fetched")
                /\ UNCHANGED <<routing_decision, failure>>
           ELSE /\ pc' = "Failed"
                /\ failure' = image.exc
                /\ UNCHANGED <<routing_decision, oracleCalls, prompt_parts>>
    /\ UNCHANGED <<env, config, entry, frame, content, result, fetches,
                   handlerCalled, requests, outcome>>
    /\ script' = Recorded("fetch", o)
    /\ UNCHANGED <<other, client>>

\* the oracle replies with text, which analyze_frame parses
OracleReply(text) ==
    /\ pc = "Classifying"
    /\ pc' = "Parsed"
    /\ content' = text
    /\ routing_decision' = ParseRoutingResponse(text)
    /\ UNCHANGED <<env, config, entry, frame, result, failure, oracleCalls, fetches,
                   handlerCalled, requests, outcome, prompt_parts>>
    /\ script' = Recorded("oracle", Ret(text))
    /\ UNCHANGED <<other, client>>

\* the oracle call fails
OracleFail(e) ==
    /\ pc = "Classifying"
    /\ pc' = "Failed"
    /\ failure' = e
    /\ UNCHANGED <<env, config, entry, frame, content, routing_decision, result,
                   oracleCalls, fetches, handlerCalled, requests, outcome,
                   prompt_parts>>
    /\ script' = Recorded("oracle", Raise(e))
    /\ UNCHANGED <<other, client>>

\* analyze_frame's except clause returns its decision
AnalyzeExceptReturn ==
    /\ pc = "Failed"
    /\ pc' = "Gated"
    /\ routing_decision' = AnalyzeExcept(failure)
    /\ UNCHANGED <<env, config, entry, frame, content, result, failure, oracleCalls,
                   fetches, handlerCalled, requests, outcome, prompt_parts>>
    /\ UNCHANGED script
    /\ UNCHANGED <<other, client>>

\* analyze_frame returns the parsed decision
AnalyzeReturn ==
    /\ pc = "Parsed"
    /\ pc' = "Gated"
    /\ content' = <<>>
    /\ UNCHANGED <<env, config, entry, frame, routing_decision, result, failure,
                   oracleCalls, fetches, handlerCalled, requests, outcome, prompt_parts>>
    /\ UNCHANGED script
    /\ UNCHANGED <<other, client>>

\* the gate, then the call of the handler method up to its HTTP request
Gate ==
    /\ pc = "Gated"
    /\ entry \in Dispatched
    /\ IF GateSkips(routing_decision, config)
       THEN /\ result' = Ret(Skipped(routing_decision))
            /\ pc' = "Done"
            /\ UNCHANGED <<handlerCalled, requests>>
       ELSE LET h == Handler(routing_decision.route)
            IN  /\ handlerCalled' = h
                /\ CASE h = "face" /\ FaceNoImage(frame.image_base64) ->
                            /\ result' = Finish(routing_decision, Ret(FaceNoImageResponse))
                            /\ pc' = "Done"
                            /\ UNCHANGED requests
                     [] h = "face" /\ ~FaceNoImage(frame.image_base64) ->
                            /\ requests' = requests \cup {FaceRequest(frame, config)}
                            /\ pc' = "Dispatching"
                            /\ UNCHANGED result
                     [] h = "sign" ->
                            /\ requests' = requests \cup {SignRequest(frame.image_base64, config)}
                            /\ pc' = "Dispatching"
                            /\ UNCHANGED result
                     [] OTHER ->
                            /\ result' = Finish(routing_decision, Ret(None))
                            /\ pc' = "Done"
                            /\ UNCHANGED requests
    /\ UNCHANGED <<env, config, entry, frame, content, routing_decision, failure,
                   oracleCalls, fetches, outcome, prompt_parts>>
    /\ UNCHANGED script
    /\ UNCHANGED <<other, client>>

\* /analyze going on to the handler call of /route
AnalyzeThenDispatch(d) ==
    Finish(d, Ret(Dict(FaceKeys, "")))

\* response_model = FrameAnalysisResponse: the returned decision is validated
\* (route and reasoning are str) and serialised (a NaN is no JSON number)
FrameAnalysisResponse(d) ==
    IF d.route.t # "str" \/ d.reasoning.t # "str" THEN Raise("ResponseValidationError")
    ELSE IF d.confidence = NaN THEN Raise("ValueError")
    ELSE Ret(d)

\* POST /analyze: analyze_frame has returned and the endpoint returns its decision
AnalyzeRespond ==
    /\ pc = "Gated"
    /\ entry = "analyze"
    /\ result' = FrameAnalysisResponse(routing_decision)
    /\ pc' = "Done"
    /\ UNCHANGED <<env, config, entry, frame, content, routing_decision, failure,
                   oracleCalls, fetches, handlerCalled, requests, outcome, prompt_parts>>
    /\ UNCHANGED script
    /\ UNCHANGED <<other, client>>

\* a forced route calls its handler method, up to the method's HTTP request
ForceCall ==
    /\ pc = "Received"
    /\ entry \in Forced
    /\ LET h == ForcedHandler(entry)
           args == HandlerArgs(entry, frame)
       IN  /\ handlerCalled' = h
           /\ CASE h = "face" /\ FaceNoImage(args.image_base64) ->
                       /\ result' = Ret(FaceNoImageResponse)
                       /\ pc' = "Done"
                       /\ UNCHANGED requests
                [] h = "face" /\ ~FaceNoImage(args.image_base64) ->
                       /\ requests' = requests \cup {FaceRequest(args, config)}
                       /\ pc' = "Dispatching"
                       /\ UNCHANGED result
                [] OTHER ->
                       /\ requests' = requests \cup {SignRequest(args.image_base64, config)}
                       /\ pc' = "Dispatching"
                       /\ UNCHANGED result
    /\ UNCHANGED <<env, config, entry, frame, content, routing_decision, failure,
                   oracleCalls, fetches, outcome, prompt_parts>>
    /\ UNCHANGED script
    /\ UNCHANGED <<other, client>>

\* the downstream service answers (or not) and the handler method ends: inside
\* route_and_call_api's try / except, or straight into the forced route
HandlerReply(o, jsonErrCaught) ==
    /\ pc = "Dispatching"
    /\ o \in (IF handlerCalled = "face" THEN FaceOutcomes ELSE SignOutcomes)
    /\ outcome' = o
    /\ LET h == IF handlerCalled = "face"
                THEN FaceResponse(o, jsonErrCaught)
                ELSE SignResponse(o)
       IN  result' = IF entry \in Forced THEN h ELSE Finish(routing_decision, h)
    /\ pc' = "Done"
    /\ UNCHANGED <<env, config, entry, frame, content, routing_decision, failure,
                   oracleCalls, fetches, handlerCalled, requests, prompt_parts>>
    /\ script' = [Recorded("handler", o) EXCEPT !.json = script.recording /\ jsonErrCaught]
    /\ UNCHANGED <<other, client>>

Next ==
    \/ \E e \in Entries : \E f \in FramesOf(e) : Receive(e, f)
    \/ AnalyzePrepare
    \/ \E o \in FetchOutcomes : FetchReply(o)
    \/ \E text \in OracleReplies : OracleReply(text)
    \/ \E e \in OracleFailures : OracleFail(e)
    \/ AnalyzeExceptReturn
    \/ AnalyzeReturn
    \/ Gate
    \/ AnalyzeRespond
    \/ ForceCall
    \/ \E o \in FaceOutcomes \cup SignOutcomes : \E j \in BOOLEAN : HandlerReply(o, j)

Spec == Init /\ [][Next]_vars

\* the endpoint's try / except around the router call: the HTTP response
HttpResponse(e, r) ==
    IF ~r.ok THEN [status_code |-> 500, detail |-> r.exc]
    ELSE IF e \in Forced
    THEN [status_code |-> 200, body |-> [api_response |-> r.val, status |-> "success"]]
    ELSE [status_code |-> 200, body |-> r.val]

(***************************************************************************)
(* Two requests on the one router of api_server.py.  The running request   *)
(* owns the request variables; the other one is parked in other; Switch    *)
(* hands control over at any point, so every interleaving of the two is a  *)
(* behaviour.  The replies each request is given are recorded in script.   *)
(***************************************************************************)
PairFrames ==
    {[NoFrame EXCEPT !.image_base64 = Jpeg],
     [NoFrame EXCEPT !.audio_description = Str("I see a person's face, who is this?")],
     [NoFrame EXCEPT !.image_url = Str("http://camera/frame.jpg")]}
PairReplies ==
    {<<Tok("{"),
       Obj([route |-> Str(FACE_RECOGNITION_TTS), confidence |-> Num(92),
            reasoning |-> Str("face visible")]),
       Tok("}")>>,
     <<Tok("{"),
       Obj([route |-> Str(SIGN_LANGUAGE), confidence |-> Num(70),
            reasoning |-> Absent]),
       Tok("}")>>,
     <<Tok("{"),
       Obj([route |-> Str(SIGN_LANGUAGE), confidence |-> Num(40),
            reasoning |-> Absent]),
       Tok("}")>>,
     <<Tok("w")>>}
PairFetchOutcomes == {"image", "timeout"}
PairOracleFailures == {"DeadlineExceeded"}
PairHandlerOutcomes == {"ok_full", "ok_sign", "conn_fail"}

\* the request variables as one record
Locals ==
    [pc |-> pc, entry |-> entry, frame |-> frame, content |-> content,
     routing_decision |-> routing_decision, result |-> result, failure |-> failure,
     oracleCalls |-> oracleCalls, fetches |-> fetches, handlerCalled |-> handlerCalled,
     requests |-> requests, outcome |-> outcome, prompt_parts |-> prompt_parts,
     script |-> script]

\* a request slot nothing has arrived in, with its recording script
IdleSlot(id) ==
    [pc |-> "Idle", entry |-> "route", frame |-> NoFrame, content |-> <<>>,
     routing_decision |-> Pending, result |-> Pending, failure |-> "",
     oracleCalls |-> 0, fetches |-> 0, handlerCalled |-> "none",
     requests |-> {}, outcome |-> "none", prompt_parts |-> NoParts,
     script |-> [NoScript EXCEPT !.recording = TRUE, !.id = id]]

PairInit ==
    /\ env \in EnvThresholds
    /\ config = CreateRouterFromEnv(env, BareHost)
    /\ pc = "Idle"
    /\ entry = "route"
    /\ frame = NoFrame
    /\ content = <<>>
    /\ routing_decision = Pending
    /\ result = Pending
    /\ failure = ""
    /\ oracleCalls = 0
    /\ fetches = 0
    /\ handlerCalled = "none"
    /\ requests = {}
    /\ outcome = "none"
    /\ prompt_parts = NoParts
    /\ script = IdleSlot(1).script
    /\ other = IdleSlot(2)
    /\ client = NoClient

\* a router that keeps the handler it chose on itself: the choice stays where
\* it is when control passes to the other request
SwitchSharedHandler ==
    /\ other' = Locals
    /\ pc' = other.pc
    /\ entry' = other.entry
    /\ frame' = other.frame
    /\ content' = other.content
    /\ routing_decision' = other.routing_decision
    /\ result' = other.result
    /\ failure' = other.failure
    /\ oracleCalls' = other.oracleCalls
    /\ fetches' = other.fetches
    /\ handlerCalled' = handlerCalled
    /\ requests' = other.requests
    /\ outcome' = other.outcome
    /\ prompt_parts' = other.prompt_parts
    /\ script' = other.script
    /\ UNCHANGED <<env, config, client>>

\* the running request is parked and the other one goes on
Switch ==
    /\ other' = Locals
    /\ pc' = other.pc
    /\ entry' = other.entry
    /\ frame' = other.frame
    /\ content' = other.content
    /\ routing_decision' = other.routing_decision
    /\ result' = other.result
    /\ failure' = other.failure
    /\ oracleCalls' = other.oracleCalls
    /\ fetches' = other.fetches
    /\ handlerCalled' = other.handlerCalled
    /\ requests' = other.requests
    /\ outcome' = other.outcome
    /\ prompt_parts' = other.prompt_parts
    /\ script' = other.script
    /\ UNCHANGED <<env, config, client>>

\* each of the two requests is a POST /route, received once
PairNext ==
    \/ \E f \in PairFrames : pc = "Idle" /\ Receive("route", f)
    \/ AnalyzePrepare
    \/ \E o \in PairFetchOutcomes : FetchReply(o)
    \/ \E text \in PairReplies : OracleReply(text)
    \/ \E e \in PairOracleFailures : OracleFail(e)
    \/ AnalyzeExceptReturn
    \/ AnalyzeReturn
    \/ Gate
    \/ \E o \in PairHandlerOutcomes : HandlerReply(o, FALSE)
    \/ Switch

PairSpec == PairInit /\ [][PairNext]_vars

\* route_and_call_api as a function of its arguments and of the replies it is
\* given: the result of a request handled alone
RouteAndCallApi(cfg, f, sc) ==
    LET source == ImageSource(f.image_base64, f.image_url)
        image == CASE source = "inline" -> DecodeBase64ToImage(f.image_base64)
                   [] source = "fetched" -> FetchImage(sc.fetch)
                   [] OTHER -> Ret(None)
        decision == IF ~image.ok THEN AnalyzeExcept(image.exc)
                    ELSE IF ~sc.oracle.ok THEN AnalyzeExcept(sc.oracle.exc)
                    ELSE ParseRoutingResponse(sc.oracle.val)
        h == Handler(decision.route)
    IN  IF GateSkips(decision, cfg) THEN Ret(Skipped(decision))
        ELSE CASE h = "face" /\ FaceNoImage(f.image_base64) ->
                      Finish(decision, Ret(FaceNoImageResponse))
               [] h = "face" /\ ~FaceNoImage(f.image_base64) ->
                      Finish(decision, FaceResponse(sc.handler, sc.json))
               [] h = "sign" -> Finish(decision, SignResponse(sc.handler))
               [] OTHER -> Finish(decision, Ret(None))

(***************************************************************************)
(* raspberry_pi_client.py: PerceptEyeClient.run_continuous_capture         *)
(***************************************************************************)
\* what the router (or the network) does with a frame the client posts:
\* a JSON object with the expected keys, a JSON object without them, a body
\* that is no JSON, no connection, no answer in time, a non-2xx status
ClientOutcomes == {"ok", "ok_nokeys", "garbage", "conn_fail", "timeout", "http_error"}
\* interval, in hundredths of a second: the default and the one main() passes
ClientIntervals == {100, 200}

\* the try block of send_frame_for_routing / send_frame_for_analysis: the
\* result, or the exception raised; the analysis variant reads result['route']
\* and result['confidence'] for its log line
SendTry(analysis_only, o) ==
    CASE o = "ok" -> Ret(Dict({"route", "confidence"}, ""))
      [] o = "ok_nokeys" -> IF analysis_only THEN Raise("KeyError")
                            ELSE Ret(Dict({"detail"}, ""))
      [] o = "garbage" -> Raise("JSONDecodeError")
      [] OTHER -> Raise(ExcName(o))

\* a send without its except clause
SendFrameNoExcept(analysis_only, o) == SendTry(analysis_only, o)

\* send_frame_for_routing / send_frame_for_analysis: except Exception
\* returns None
SendFrame(analysis_only, o) ==
    IF SendTry(analysis_only, o).ok THEN SendTry(analysis_only, o) ELSE Ret(None)

\* run_continuous_capture has been called
ClientInit ==
    /\ env = Unset
    /\ config = CreateRouterFromEnv(env, BareHost)
    /\ pc = "Idle"
    /\ entry = "route"
    /\ frame = NoFrame
    /\ content = <<>>
    /\ routing_decision = Pending
    /\ result = Pending
    /\ failure = ""
    /\ oracleCalls = 0
    /\ fetches = 0
    /\ handlerCalled = "none"
    /\ requests = {}
    /\ outcome = "none"
    /\ prompt_parts = NoParts
    /\ script = NoScript
    /\ other = NoOther
    /\ client \in [pc : {"Start"}, camera : {FALSE}, interval : ClientIntervals,
                    analysis_only : BOOLEAN, frame_bytes : {None}, result : {None},
                    captures : {0}, sends : {0}, inflight : {0},
                    interrupted : {FALSE}, raised : {""}]

\* initialize_camera: the camera opens, or the method returns False and
\* run_continuous_capture returns
InitializeCamera(opened) ==
    /\ client.pc = "Start"
    /\ client' = IF opened
                 THEN [client EXCEPT !.pc = "Capture", !.camera = TRUE]
                 ELSE [client EXCEPT !.pc = "Returned"]
    /\ UNCHANGED <<env, config, locals, other>>

\* capture_frame, then `if not frame_bytes`: a frame to send, or none
CaptureFrame(ret) ==
    /\ client.pc = "Capture"
    /\ client.captures < MaxCaptures
    /\ client' = IF client.camera /\ ret
                 THEN [client EXCEPT !.pc = "Send", !.captures = @ + 1,
                                     !.frame_bytes = Jpeg]
                 ELSE [client EXCEPT !.pc = "Sleep", !.captures = @ + 1,
                                     !.frame_bytes = None]
    /\ UNCHANGED <<env, config, locals, other>>

\* requests.post of the frame: the request is on its way
PostFrame ==
    /\ client.pc = "Send"
    /\ client' = [client EXCEPT !.pc = "Awaiting", !.sends = @ + 1,
                                !.inflight = @ + 1]
    /\ UNCHANGED <<env, config, locals, other>>

\* the send returns, or raises into run_continuous_capture, whose try has a
\* finally (cleanup) and no except clause for it
SendReturns(o) ==
    /\ client.pc = "Awaiting"
    /\ LET sent == SendFrame(client.analysis_only, o)
       IN  client' = IF sent.ok
                     THEN [client EXCEPT !.pc = "Sleep", !.result = sent.val,
                                         !.inflight = @ - 1]
                     ELSE [client EXCEPT !.pc = "Stopped", !.raised = sent.exc,
                                         !.inflight = @ - 1, !.camera = FALSE]
    /\ UNCHANGED <<env, config, locals, other>>

\* time.sleep(interval) returns and the loop goes round
Sleep ==
    /\ client.pc = "Sleep"
    /\ client.interval >= 0
    /\ client' = [client EXCEPT !.pc = "Capture"]
    /\ UNCHANGED <<env, config, locals, other>>

\* KeyboardInterrupt inside the loop: except KeyboardInterrupt, then cleanup
Interrupt ==
    /\ client.pc \in {"Capture", "Send", "Awaiting", "Sleep"}
    /\ client' = [client EXCEPT !.pc = "Stopped", !.interrupted = TRUE,
                                !.camera = FALSE, !.inflight = 0]
    /\ UNCHANGED <<env, config, locals, other>>

ClientNext ==
    \/ \E opened \in BOOLEAN : InitializeCamera(opened)
    \/ \E ret \in BOOLEAN : CaptureFrame(ret)
    \/ PostFrame
    \/ \E o \in ClientOutcomes : SendReturns(o)
    \/ Sleep
    \/ Interrupt

\* the loop is sequential code that keeps running: every call in it returns
\* (requests.post has a timeout), so a step that can be taken is taken
ClientLoop ==
    \/ \E ret \in BOOLEAN : CaptureFrame(ret)
    \/ PostFrame
    \/ \E o \in ClientOutcomes : SendReturns(o)
    \/ Sleep

ClientSpec == ClientInit /\ [][ClientNext]_vars /\ WF_vars(ClientLoop)

(***************************************************************************)
(* The sign-language handler alone, under every configured URL within the  *)
(* bound: POST /route/sign-language                                        *)
(***************************************************************************)
UrlInit ==
    /\ env = Unset
    /\ config \in {CreateRouterFromEnv(env, u) : u \in ConfiguredUrls}
    /\ pc = "Received"
    /\ entry = "force_sign"
    /\ frame \in [image_base64 : {None, Jpeg}, audio_data : {None},
                   audio_description : {None}, image_url : {None}]
    /\ content = <<>>
    /\ routing_decision = Pending
    /\ result = Pending
    /\ failure = ""
    /\ oracleCalls = 0
    /\ fetches = 0
    /\ handlerCalled = "none"
    /\ requests = {}
    /\ outcome = "none"
    /\ prompt_parts = NoParts
    /\ script = NoScript
    /\ other = NoOther
    /\ client = NoClient

UrlNext ==
    \/ ForceCall
    \/ \E o \in SignOutcomes : \E j \in BOOLEAN : HandlerReply(o, j)

UrlSpec == UrlInit /\ [][UrlNext]_vars

(***************************************************************************)
(* _parse_routing_response alone, on every reply text within the bound     *)
(***************************************************************************)
DecodeInit ==
    /\ env \in EnvThresholds
    /\ config = CreateRouterFromEnv(env, BareHost)
    /\ pc = "Decode"
    /\ entry = "route"
    /\ frame = NoFrame
    /\ content \in OracleTexts
    /\ routing_decision = Pending
    /\ result = Pending
    /\ failure = ""
    /\ oracleCalls = 1
    /\ fetches = 0
    /\ handlerCalled = "none"
    /\ requests = {}
    /\ outcome = "none"
    /\ prompt_parts = NoParts
    /\ script = NoScript
    /\ other = NoOther
    /\ client = NoClient

Decode ==
    /\ pc = "Decode"
    /\ pc' = "Parsed"
    /\ routing_decision' = ParseRoutingResponse(content)
    /\ UNCHANGED <<env, config, entry, frame, content, result, failure, oracleCalls,
                   fetches, handlerCalled, requests, outcome, prompt_parts>>
    /\ UNCHANGED script
    /\ UNCHANGED <<other, client>>

DecodeNext == Decode

DecodeSpec == DecodeInit /\ [][DecodeNext]_vars

(***************************************************************************)
(* Properties                                                              *)
(***************************************************************************)
Registered == {Str(FACE_RECOGNITION_TTS), Str(SIGN_LANGUAGE)}
Threshold == config.confidence_threshold
BelowThreshold == FloatLt(routing_decision.confidence, Threshold)
AtLeastThreshold ==
    /\ routing_decision.confidence.t = "num"
    /\ routing_decision.confidence.n >= Threshold.n
EmptyFrame ==
    /\ frame.image_base64 = None
    /\ frame.image_url = None
    /\ frame.audio_description = None
    /\ frame.audio_data = None

\* C1: route_and_call_api is total.  Whatever the frame, the oracle and the
\* downstream service do, the call returns (no exception leaves it) a result
\* with routing_decision, api_response and a status among success, skipped,
\* error; and a request in progress can always take its next step.
C1_TotalFunction ==
    /\ (pc = "Done" /\ entry \in Dispatched) =>
          /\ result.ok
          /\ {"routing_decision", "api_response", "status"} \subseteq DOMAIN result.val
          /\ result.val.status \in {"success", "skipped", "error"}
          /\ result.val.routing_decision = routing_decision
    /\ pc \notin {"Idle", "Done"} => ENABLED Next

\* the empty frame dispatched to a handler whose reply is not JSON
C1_Witness ==
    /\ pc = "Done"
    /\ entry \in Dispatched
    /\ EmptyFrame
    /\ outcome = "garbage"
    /\ result.ok
    /\ result.val.status = "error"

\* C2: when the gate passed for a registered label and the downstream call
\* failed in transport (connection failure, timeout, non-2xx), the result has
\* status "error", the decision, a null api_response and an error detail.
C2_HandlerFailureIsError ==
    (/\ pc = "Done"
     /\ entry \in Dispatched
     /\ routing_decision.route \in Registered
     /\ outcome \in TransportFailures)
    => /\ result.ok
       /\ result.val.status = "error"
       /\ result.val.routing_decision = routing_decision
       /\ result.val.api_response = None
       /\ "error" \in DOMAIN result.val

\* C3: status "success" implies that a handler was invoked for the frame and
\* returned without transport failure.
C3_SuccessMeansHandlerSucceeded ==
    (pc = "Done" /\ entry \in Dispatched /\ result.ok /\ result.val.status = "success")
    => /\ handlerCalled # "none"
       /\ outcome \notin TransportFailures

\* C4: a well-formed decision at or above the threshold whose label has no
\* handler ends with status "skipped" and no handler call.
C4_UnregisteredLabelSkipped ==
    (/\ pc = "Done"
     /\ entry \in Dispatched
     /\ ~routing_decision.error
     /\ AtLeastThreshold
     /\ routing_decision.route.t = "str"
     /\ routing_decision.route \notin Registered)
    => /\ result.ok
       /\ result.val.status = "skipped"
       /\ handlerCalled = "none"
       /\ requests = {}

\* C5: a malformed decision, or one whose confidence is strictly below the
\* threshold, is never dispatched: no handler method is entered, no downstream
\* request is sent, and the result is status "skipped" with a null api_response.
C5_GateSkips ==
    (/\ pc \in {"Gated", "Dispatching", "Done"}
     /\ entry \in Dispatched
     /\ (routing_decision.error \/ BelowThreshold))
    => /\ pc # "Dispatching"
       /\ handlerCalled = "none"
       /\ requests = {}
       /\ pc = "Done" =>
             /\ result.ok
             /\ result.val.status = "skipped"
             /\ result.val.api_response = None

\* scenario B: sign_language at 0.4 under the threshold 0.7
C5_Witness ==
    /\ pc = "Done"
    /\ entry \in Dispatched
    /\ ~routing_decision.error
    /\ routing_decision.route = Str(SIGN_LANGUAGE)
    /\ routing_decision.confidence = Num(40)
    /\ Threshold = Num(70)
    /\ result.val.status = "skipped"

\* C6: the gate is strict.  A well-formed decision for a registered label whose
\* confidence equals the threshold is dispatched to the handler of its label,
\* not skipped; and without CONFIDENCE_THRESHOLD the threshold is 0.7.
C6_EqualPasses ==
    /\ ~env.set => Threshold = Num(70)
    /\ (/\ pc = "Done"
        /\ entry \in Dispatched
        /\ ~routing_decision.error
        /\ routing_decision.route \in Registered
        /\ routing_decision.confidence = Threshold)
       => /\ result.ok
          /\ result.val.status # "skipped"
          /\ handlerCalled =
                 (IF routing_decision.route = Str(SIGN_LANGUAGE) THEN "sign" ELSE "face")
          /\ (routing_decision.route = Str(SIGN_LANGUAGE) \/ Truthy(frame.image_base64))
                 => \E r \in requests : r.to = handlerCalled

\* sign_language at exactly the default 0.7, dispatched and answered
C6_Witness ==
    /\ pc = "Done"
    /\ entry \in Dispatched
    /\ ~env.set
    /\ ~routing_decision.error
    /\ routing_decision.route = Str(SIGN_LANGUAGE)
    /\ routing_decision.confidence = Num(70)
    /\ handlerCalled = "sign"
    /\ requests # {}
    /\ result.val.status = "success"

\* C7: status "skipped" implies a null api_response and a decision that is
\* malformed or has confidence below the threshold.
C7_SkippedMeansGated ==
    (pc = "Done" /\ entry \in Dispatched /\ result.ok /\ result.val.status = "skipped")
    => /\ result.val.api_response = None
       /\ (result.val.routing_decision.error
           \/ FloatLt(result.val.routing_decision.confidence, Threshold))

\* skipped on the error flag alone: threshold 0, malformed decision at 0.0
C7_Witness ==
    /\ pc = "Done"
    /\ entry \in Dispatched
    /\ result.val.status = "skipped"
    /\ Threshold = Num(0)
    /\ result.val.routing_decision.error
    /\ ~BelowThreshold

\* C8: a failure during classification (inline image undecodable, image
\* reference not fetched, oracle call failed) becomes the decision
\* {none, 0.0, "Error: <failure>", error}; the dispatch ends "skipped" with a
\* null api_response and no handler is called.
C8_ClassificationFailureAbsorbed ==
    (failure # "" /\ entry \in Dispatched /\ pc \in {"Gated", "Dispatching", "Done"})
    => /\ routing_decision =
              [route |-> Str("none"), confidence |-> Num(0),
               reasoning |-> Str("Error: " \o failure), error |-> TRUE]
       /\ pc # "Dispatching"
       /\ handlerCalled = "none"
       /\ requests = {}
       /\ pc = "Done" =>
             /\ result.ok
             /\ result.val.status = "skipped"
             /\ result.val.api_response = None
             /\ result.val.routing_decision = routing_decision

\* the image reference answers non-2xx, under threshold 0
C8_Witness ==
    /\ pc = "Done"
    /\ entry \in Dispatched
    /\ failure = "HTTPError"
    /\ fetches = 1
    /\ oracleCalls = 0
    /\ Threshold = Num(0)
    /\ result.val.status = "skipped"

\* C9: _parse_routing_response returns, for every reply text, a record with
\* route, confidence (a float), reasoning and error (a bool); no exception
\* leaves it.
C9_DecodeTotal ==
    pc = "Parsed" =>
        /\ DOMAIN routing_decision = {"route", "confidence", "reasoning", "error"}
        /\ routing_decision.error \in BOOLEAN
        /\ routing_decision.confidence.t \in {"num", "nan"}
        /\ routing_decision.error =>
              /\ routing_decision.route = Str("none")
              /\ routing_decision.confidence = Num(0)

\* a JSON object in prose whose confidence float() rejects
C9_Witness ==
    /\ pc = "Parsed"
    /\ Len(content) = 5
    /\ content[3].ch = "obj"
    /\ content[3].obj.confidence = Str("high")
    /\ content[3].obj.route = Str(SIGN_LANGUAGE)
    /\ routing_decision.reasoning = Str("Parse error: ValueError")

\* C10: a reply that is one valid JSON object with a numeric confidence and a
\* route outside {face_recognition_tts, sign_language, none} decodes to a
\* malformed decision: error true, route none, confidence 0.0.
C10_ForeignRouteMalformed ==
    (/\ pc = "Parsed"
     /\ Len(content) = 3
     /\ content[1].ch = "{" /\ content[2].ch = "obj" /\ content[3].ch = "}"
     /\ content[2].obj.confidence.t = "num"
     /\ content[2].obj.route.t = "str"
     /\ content[2].obj.route.s \notin {"face_recognition_tts", "sign_language", "none"})
    => /\ routing_decision.error
       /\ routing_decision.route = Str("none")
       /\ routing_decision.confidence = Num(0)

\* the reply has a "{" before a "}", and the span from its first "{" to its
\* last "}"
HasSpan ==
    \E i, j \in 1..Len(content) :
        i < j /\ content[i].ch = "{" /\ content[j].ch = "}"
Span ==
    LET i == CHOOSE i \in 1..Len(content) :
                 content[i].ch = "{" /\ \A k \in 1..(i - 1) : content[k].ch # "{"
        j == CHOOSE j \in 1..Len(content) :
                 content[j].ch = "}" /\ \A k \in (j + 1)..Len(content) : content[k].ch # "}"
    IN  [k \in 1..(j - i + 1) |-> content[i + k - 1]]
\* the span is one JSON object: its members between the braces, or none
SpanIsJson ==
    \/ Len(Span) = 2
    \/ Len(Span) = 3 /\ Span[2].ch = "obj"
SpanObject == IF Len(Span) = 3 THEN Span[2].obj ELSE NoObj
Diagnostics ==
    {Str("Failed to parse routing decision"), Str("Parse error: JSONDecodeError"),
     Str("Parse error: ValueError"), Str("Parse error: TypeError")}

\* C11: every decision _parse_routing_response returns has its confidence in
\* [0.0, 1.0].
C11_ConfidenceInRange ==
    pc = "Parsed" =>
        /\ routing_decision.confidence.t = "num"
        /\ routing_decision.confidence.n >= 0
        /\ routing_decision.confidence.n <= 100

\* C12: a reply with no "{" before a "}", or whose span is not JSON, or whose
\* object lacks route or confidence, or whose confidence float() rejects,
\* decodes to exactly route none, confidence 0.0, error true, with a
\* diagnostic as reasoning.
C12_Rejections ==
    (/\ pc = "Parsed"
     /\ \/ ~HasSpan
        \/ ~SpanIsJson
        \/ SpanObject.route = Absent
        \/ SpanObject.confidence = Absent
        \/ SpanObject.confidence \in {None, Str("high")})
    => /\ routing_decision.route = Str("none")
       /\ routing_decision.confidence = Num(0)
       /\ routing_decision.error = TRUE
       /\ routing_decision.reasoning \in Diagnostics

\* a "}" followed by a "{": both braces, no span
C12_Witness ==
    /\ pc = "Parsed"
    /\ content = <<Tok("}"), Tok("{")>>
    /\ routing_decision.error
    /\ routing_decision.reasoning = Str("Failed to parse routing decision")

\* the reply holds a JSON object with a route of the label set and a numeric
\* confidence in [0, 1], at position k
GoodObjectAt(k) ==
    /\ k - 1 \in 1..Len(content) /\ k + 1 \in 1..Len(content)
    /\ content[k - 1].ch = "{" /\ content[k].ch = "obj" /\ content[k + 1].ch = "}"
    /\ content[k].obj.route \in {Str("face_recognition_tts"), Str("sign_language"), Str("none")}
    /\ content[k].obj.confidence.t = "num"
    /\ content[k].obj.confidence.n >= 0
    /\ content[k].obj.confidence.n <= 100
DecodedAs(o) ==
    /\ routing_decision.error = FALSE
    /\ routing_decision.route = o.route
    /\ routing_decision.confidence = o.confidence

\* C13 as stated: every reply that contains such an object, whatever surrounds
\* it, decodes to error false with the object's route and confidence.
C13_WellFormedDecoded ==
    pc = "Parsed" =>
        \A k \in 1..Len(content) : GoodObjectAt(k) => DecodedAs(content[k].obj)

\* C13 amended: the same, when no "{" precedes the object and no "}" follows
\* it in the reply.
C13_WellFormedDecodedNoStrayBrace ==
    pc = "Parsed" =>
        \A k \in 1..Len(content) :
            (/\ GoodObjectAt(k)
             /\ \A i \in 1..(k - 2) : content[i].ch # "{"
             /\ \A i \in (k + 2)..Len(content) : content[i].ch # "}")
            => DecodedAs(content[k].obj)

\* the object wrapped in prose on both sides
C13_Witness ==
    /\ pc = "Parsed"
    /\ Len(content) = 5
    /\ content[1].ch = "w" /\ content[5].ch = "w"
    /\ GoodObjectAt(3)
    /\ content[3].obj.route = Str("sign_language")
    /\ content[3].obj.confidence = Num(92)
    /\ DecodedAs(content[3].obj)

(***************************************************************************)
(* Forced routes and POST /analyze                                         *)
(***************************************************************************)
\* C14: a request to a forced route (/route/face-recognition, /route/speech,
\* /route/people, /route/sign-language) never calls the oracle, never fetches
\* an image, never decodes a reply, never has a decision put to the gate, and
\* calls the named handler method only: the face handler for the first three,
\* the sign-language handler for the last; every request sent goes to it
C14_ForcedBypassesClassification ==
    entry \in {"force_face", "force_speech", "force_people", "force_sign"} =>
        /\ oracleCalls = 0
        /\ fetches = 0
        /\ content = <<>>
        /\ routing_decision = Pending
        /\ failure = ""
        /\ pc \in {"Received", "Dispatching", "Done"}
        /\ pc = "Received" => handlerCalled = "none" /\ requests = {}
        /\ pc \in {"Dispatching", "Done"} =>
               /\ handlerCalled = (IF entry = "force_sign" THEN "sign" ELSE "face")
               /\ \A r \in requests : r.to = handlerCalled

\* a forced sign-language request with an image that the oracle would be asked
\* about has ended with the sign-language handler's answer
C14_Witness ==
    /\ pc = "Done"
    /\ entry = "force_sign"
    /\ frame.image_base64 = Jpeg
    /\ config.confidence_threshold = Num(DefaultThreshold)
    /\ handlerCalled = "sign"
    /\ requests # {}
    /\ oracleCalls = 0
    /\ result.ok

\* C15: a request to /analyze never calls a handler method and sends no
\* downstream request, whatever route and confidence were decoded; when it
\* returns, it returns the decision alone: route, confidence, reasoning, error
C15_AnalyzeOnlyClassifies ==
    entry = "analyze" =>
        /\ handlerCalled = "none"
        /\ requests = {}
        /\ outcome = "none"
        /\ pc # "Dispatching"
        /\ (pc = "Done" /\ result.ok) =>
               /\ DOMAIN result.val = {"route", "confidence", "reasoning", "error"}
               /\ result.val = routing_decision

\* /analyze has returned a decision that /route would dispatch to a handler
C15_Witness ==
    /\ pc = "Done"
    /\ entry = "analyze"
    /\ result.ok
    /\ result.val.route = Str(FACE_RECOGNITION_TTS)
    /\ result.val.confidence = Num(92)
    /\ ~result.val.error
    /\ frame.image_base64 = Jpeg
    /\ handlerCalled = "none"
(***************************************************************************)
(* The face handler without an image, scenario A                           *)
(***************************************************************************)
\* C16: when a dispatch calls the face handler for a frame with no image, no
\* request is sent to the downstream service and the dispatch result has
\* status "error"
C16_NoImageIsError ==
    (/\ pc = "Done"
     /\ entry \in Dispatched
     /\ handlerCalled = "face"
     /\ FaceNoImage(frame.image_base64)) =>
        /\ requests = {}
        /\ result.ok
        /\ result.val.status = "error"

\* a frame that carries an audio description and nothing else
AudioOnly(f) ==
    /\ f.image_base64 = None
    /\ f.image_url = None
    /\ f.audio_data = None
    /\ f.audio_description.t = "str"

\* the oracle's reply was decoded as scenario A has it: the face label with
\* confidence 0.92
ScenarioAReply ==
    /\ routing_decision # Pending
    /\ ~routing_decision.error
    /\ routing_decision.route = Str(FACE_RECOGNITION_TTS)
    /\ routing_decision.confidence = Num(92)

OperatorUrls ==
    {<<"h">>, <<"h", "/">>, <<"h", "/", "p">>, <<"h", "/", "p", "/">>}

\* the number of places where /predict/base64 occurs in a URL
Occurrences(u) ==
    Cardinality({i \in 1..(Len(u) - 1) : SubSeq(u, i, i + 1) = PredictSuffix})

\* C18: under each of the four operator configurations, the URL of every
\* request to the sign-language service ends with /predict/base64, holds it
\* exactly once, and is left unchanged by a second normalisation
C18_UrlNormalised ==
    config.sign_language_api_url \in OperatorUrls =>
        \A r \in requests :
            r.to = "sign" =>
                /\ EndsWith(r.url, PredictSuffix)
                /\ Occurrences(r.url) = 1
                /\ SignLanguageUrl(r.url) = r.url

(***************************************************************************)
(* Undecodable input, the shape of a successful api_response               *)
(***************************************************************************)
\* C19: a /route request whose image is not decodable base64 is answered with
\* a 4xx status and goes no further than the endpoint: no oracle call, no
\* decision put to the gate, no handler call
C19_BadBase64Rejected ==
    (pc = "Done" /\ entry \in Dispatched /\ frame.image_base64 = BadBase64) =>
        /\ HttpResponse(entry, result).status_code \in 400..499
        /\ oracleCalls = 0
        /\ handlerCalled = "none"
        /\ routing_decision = Pending

\* C20: a dispatch that ends with status "success" and route
\* face_recognition_tts has an api_response that is a mapping with faces,
\* locations and unknown_count; one that ends with status "success" and route
\* sign_language has an api_response that is not null
C20_SuccessResponseShape ==
    (/\ pc = "Done"
     /\ entry \in Dispatched
     /\ result.ok
     /\ result.val.status = "success") =>
        /\ result.val.routing_decision.route = Str(FACE_RECOGNITION_TTS) =>
               /\ result.val.api_response.t = "dict"
               /\ {"faces", "locations", "unknown_count"} \subseteq result.val.api_response.keys
        /\ result.val.routing_decision.route = Str(SIGN_LANGUAGE) =>
               result.val.api_response # None
(***************************************************************************)
(* The decision through the gate and the dispatch                          *)
(***************************************************************************)
\* C23: from the moment analyze_frame has returned, no step of a dispatch
\* changes the decision, and the result the dispatch ends with, whatever its
\* status, carries exactly that decision: route, confidence, reasoning, error
C23_DecisionImmutable ==
    [][(entry \in Dispatched /\ pc \in {"Gated", "Dispatching"}) =>
          /\ routing_decision' = routing_decision
          /\ pc' = "Done" =>
                 /\ result'.ok
                 /\ result'.val.status \in {"success", "skipped", "error"}
                 /\ result'.val.routing_decision = routing_decision]_vars

\* a dispatch has ended in status error with a decision that has a reasoning
C23_Witness ==
    /\ pc = "Done"
    /\ entry \in Dispatched
    /\ result.ok
    /\ result.val.status = "error"
    /\ routing_decision.reasoning = Str("face visible")
    /\ result.val.routing_decision = routing_decision

(***************************************************************************)
(* Forced routes: the response                                             *)
(***************************************************************************)
\* the handler call of a forced request failed: the downstream service was
\* unreachable, timed out, answered non-2xx or answered no JSON, or the
\* handler method raised
ForcedCallFailed ==
    outcome \in TransportFailures \cup {"garbage"} \/ ~result.ok

\* C24: a forced-route request whose handler returned a response is answered
\* with {api_response: mapping, status: "success"}, and one whose handler call
\* failed is answered with an error response
C24_ForcedResultShape ==
    (pc = "Done" /\ entry \in Forced) =>
        LET response == HttpResponse(entry, result)
        IN  /\ ForcedCallFailed => response.status_code # 200
            /\ ~ForcedCallFailed =>
                   /\ response.status_code = 200
                   /\ response.body.status = "success"
                   /\ response.body.api_response.t = "dict"

(***************************************************************************)
(* Ordering of one dispatch                                                *)
(***************************************************************************)
\* the stages of a dispatch; the steps inside analyze_frame (image download,
\* oracle call, decoding, except clause) are the stage Classifying
Stage(p) ==
    IF p \in {"Fetching", "Classifying", "Parsed", "Failed"} THEN "Classifying" ELSE p
StageOrder ==
    {<<"Received", "Classifying">>,
     <<"Classifying", "Classifying">>, <<"Classifying", "Gated">>,
     <<"Gated", "Dispatching">>, <<"Gated", "Done">>, <<"Dispatching", "Done">>}

\* C25: every step of a dispatch follows Received, Classifying, Gated, then
\* Done or Dispatching then Done; the oracle is called at most once and never
\* after a handler; a handler method is entered at most once, only from Gated
\* with a decision that passed the gate and after the oracle call, and it is
\* the method of the decision's label
C25_Ordering ==
    [][(entry \in Dispatched /\ pc \notin {"Idle", "Done"}) =>
          /\ <<Stage(pc), Stage(pc')>> \in StageOrder
          /\ oracleCalls' \in {0, 1}
          /\ oracleCalls' # oracleCalls => (handlerCalled = "none" /\ requests = {})
          /\ (handlerCalled' # handlerCalled \/ requests' # requests) =>
                 /\ pc = "Gated"
                 /\ handlerCalled = "none"
                 /\ requests = {}
                 /\ oracleCalls = 1
                 /\ ~routing_decision.error
                 /\ ~FloatLt(routing_decision.confidence, config.confidence_threshold)
                 /\ \/ /\ routing_decision.route = Str(FACE_RECOGNITION_TTS)
                       /\ handlerCalled' = "face"
                    \/ /\ routing_decision.route = Str(SIGN_LANGUAGE)
                       /\ handlerCalled' = "sign"
                 /\ \A r \in requests' : r.to = handlerCalled'
                 /\ Cardinality(requests') <= 1]_vars

\* a dispatch went through Dispatching to Done: the oracle was called once and
\* the sign-language service answered the one request
C25_Witness ==
    /\ pc = "Done"
    /\ entry = "route"
    /\ oracleCalls = 1
    /\ handlerCalled = "sign"
    /\ Cardinality(requests) = 1
    /\ outcome = "ok_sign"
    /\ result.val.status = "success"
(***************************************************************************)
(* The image of a frame: classification and dispatch                       *)
(***************************************************************************)
\* C26: once analyze_frame has started on a request, the image reference has
\* been fetched exactly when a reference was supplied and the inline image is
\* absent (None or empty); with an inline image nothing is fetched and the
\* oracle, if called, gets the inline image; with neither the oracle is
\* called once with the text alone
C26_ImagePrecedence ==
    (entry \in Classified /\ pc \notin {"Idle", "Received"}) =>
        /\ fetches = (IF Truthy(frame.image_url) /\ ~Truthy(frame.image_base64)
                      THEN 1 ELSE 0)
        /\ Truthy(frame.image_base64) =>
               /\ fetches = 0
               /\ prompt_parts.image \in {"inline", "unsent"}
        /\ (~Truthy(frame.image_base64) /\ ~Truthy(frame.image_url)) =>
               /\ oracleCalls = 1
               /\ prompt_parts.image = "none"

\* a request with both an inline image and a reference has been classified
C26_Witness ==
    /\ pc = "Done"
    /\ entry = "route"
    /\ frame.image_base64 = Jpeg
    /\ Truthy(frame.image_url)
    /\ fetches = 0
    /\ oracleCalls = 1
    /\ prompt_parts.image = "inline"

\* C27: for a frame given by image reference alone, the fetched image goes to
\* the oracle and not to the handler: the face handler sends no request, the
\* sign-language handler posts one request with a null image; in every
\* dispatch a request carries the caller's inline image
C27_FetchedImageNotDispatched ==
    (entry \in Dispatched /\ pc \in {"Dispatching", "Done"}) =>
        /\ \A r \in requests : r.image = frame.image_base64
        /\ (/\ frame.image_base64 = None
            /\ Truthy(frame.image_url)
            /\ handlerCalled # "none") =>
               /\ fetches = 1
               /\ prompt_parts.image = "fetched"
               /\ handlerCalled = "face" => requests = {}
               /\ handlerCalled = "sign" =>
                      /\ Cardinality(requests) = 1
                      /\ \A r \in requests : r.to = "sign" /\ r.image = None

\* a frame given by reference alone was classified on the fetched image and
\* the sign-language service answered the request with the null image
C27_Witness ==
    /\ pc = "Done"
    /\ entry = "route"
    /\ frame.image_base64 = None
    /\ Truthy(frame.image_url)
    /\ prompt_parts.image = "fetched"
    /\ handlerCalled = "sign"
    /\ requests # {}
    /\ \A r \in requests : r.image = None

(***************************************************************************)
(* POST /route/speech, the keys of a dispatch result                       *)
(***************************************************************************)
\* C28: a request to /route/speech sends no downstream request, whatever it
\* carries, and is answered 200 with status "success" and an api_response
\* that holds the error 'No image provided for face recognition' alone
C28_SpeechNeverCalls ==
    entry = "force_speech" =>
        /\ requests = {}
        /\ pc # "Dispatching"
        /\ outcome = "none"
        /\ pc = "Done" =>
               LET response == HttpResponse(entry, result)
               IN  /\ response.status_code = 200
                   /\ response.body.status = "success"
                   /\ response.body.api_response.t = "dict"
                   /\ response.body.api_response.keys = {"error"}
                   /\ response.body.api_response.error =
                          "No image provided for face recognition"

\* /route/speech has answered a request that carried an image and a description
C28_Witness ==
    /\ pc = "Done"
    /\ entry = "force_speech"
    /\ frame.image_base64 = Jpeg
    /\ frame.audio_description.t = "str"
    /\ handlerCalled = "face"
    /\ requests = {}

\* C29: a result of route_and_call_api has the key "error" exactly when its
\* status is "error", and then its api_response is null
C29_ErrorKey ==
    (pc = "Done" /\ entry \in Dispatched) =>
        /\ result.ok
        /\ ("error" \in DOMAIN result.val) <=> (result.val.status = "error")
        /\ result.val.status = "error" => result.val.api_response = None

\* a dispatch has ended in status error
C29_Witness ==
    /\ pc = "Done"
    /\ entry \in Dispatched
    /\ result.ok
    /\ "error" \in DOMAIN result.val
    /\ result.val.status = "error"
    /\ result.val.error = "Timeout"
    /\ result.val.api_response = None
(***************************************************************************)
(* Two requests: determinism and independence                              *)
(***************************************************************************)
\* the two requests carry the same frame and were given the same replies
SameInputs ==
    /\ entry = other.entry
    /\ frame = other.frame
    /\ script.fetch = other.script.fetch
    /\ script.oracle = other.script.oracle
    /\ script.handler = other.script.handler
    /\ script.json = other.script.json

\* C21: two dispatches of the same frame on the same router, with the same
\* threshold, the same oracle reply and the same behaviour of the image
\* download and of the handler, end with the same status and the same label
C21_Deterministic ==
    (pc = "Done" /\ other.pc = "Done" /\ SameInputs) =>
        /\ result.ok
        /\ other.result.ok
        /\ result.val.status = other.result.val.status
        /\ result.val.routing_decision.route = other.result.val.routing_decision.route

\* the second of two equal dispatches has ended as the first did, in success
\* after one oracle call and one handler request each
C21_Witness ==
    /\ pc = "Done"
    /\ other.pc = "Done"
    /\ script.id = 2
    /\ SameInputs
    /\ frame.image_base64 = Jpeg
    /\ oracleCalls = 1
    /\ other.oracleCalls = 1
    /\ outcome = "ok_full"
    /\ result.val.status = "success"
    /\ other.result.val.status = "success"

\* C22: in every interleaving of two requests, the router configuration is
\* what startup built, and the result of each request is the result
\* route_and_call_api gives for its frame and its replies alone
C22_Independent ==
    /\ config = CreateRouterFromEnv(env, BareHost)
    /\ pc = "Done" => result = RouteAndCallApi(config, frame, script)
    /\ other.pc = "Done" => other.result = RouteAndCallApi(config, other.frame, other.script)

\* two requests with different frames have ended differently: the one sent
\* to the sign-language service, the other skipped on a failed image download
C22_Witness ==
    /\ pc = "Done"
    /\ other.pc = "Done"
    /\ frame # other.frame
    /\ handlerCalled = "sign"
    /\ result.val.status = "success"
    /\ other.failure = "Timeout"
    /\ other.result.val.status = "skipped"
(***************************************************************************)
(* The client's capture loop                                               *)
(***************************************************************************)
\* C30: once the camera is open, the loop of run_continuous_capture ends by
\* KeyboardInterrupt alone: after a failed capture the client sleeps, after a
\* send, failed or not, it sleeps, after the sleep it captures again; a frame
\* is posted only when no other is on its way; and, unless interrupted, the
\* client always comes back to attempting a capture
C30_CaptureLoop ==
    /\ [][/\ client'.inflight \in {0, 1}
          /\ client'.pc = "Awaiting" => client.inflight = 0
          /\ client'.pc = "Stopped" => client'.interrupted /\ client'.raised = ""
          /\ client'.pc = "Returned" => ~client.camera
          /\ ~client'.interrupted =>
                 /\ (client.pc = "Capture" /\ client'.frame_bytes = None) =>
                        client'.pc = "Sleep"
                 /\ client.pc = "Awaiting" => client'.pc = "Sleep"
                 /\ client.pc = "Sleep" => client'.pc = "Capture"]_vars
    /\ (client.pc \in {"Send", "Awaiting", "Sleep"}) ~>
           (client.pc = "Capture" \/ client.interrupted)

\* after two frames were posted and the second send failed, the client is
\* about to capture again
C30_Witness ==
    /\ client.pc = "Capture"
    /\ client.camera
    /\ client.captures = 2
    /\ client.sends = 2
    /\ client.result = None
    /\ client.inflight = 0
    /\ ~client.interrupted
====
